---- MODULE Spec2Model ----
(***************************************************************************)
(* A model of amara-dev:                                                   *)
(*   - ARIMAWrapper.exhaustive_search, forecast_with and parse_order       *)
(*     (src/amara/machinelearning/timeseries/model_wrappers.py)            *)
(*   - OptionsList, YesNoPrompt and FreeIntegerInput                       *)
(*     (src/amara/visuals/user_input.py)                                   *)
(* The specifications share the variables: SpecSearch runs one call of     *)
(* exhaustive_search (SpecSearchDet with a library that answers the same   *)
(* for the same order), SpecForecast one call of forecast_with, SpecOrder  *)
(* formats and parses an order string, SpecPrompt runs one call of a       *)
(* prompt against a console input stream (SpecPromptLive to completion),   *)
(* and SpecCtor constructs a YesNoPrompt.                                  *)
(* Python strings are sequences of one-character strings.                  *)
(***************************************************************************)
EXTENDS Integers, Sequences, FiniteSets, TLC

VARIABLES
    \* ---- exhaustive_search: arguments
    p_values, d_values, q_values, metrics, bounds, return_models,
    \* ---- exhaustive_search: locals
    pc,              \* position in the function
    i, j, k,         \* how many elements the three for-loops have taken
    steps_count,     \* line 122
    tracker,         \* SingleProgressBar: [total, updates]
    passes, failures,
    orders,          \* rows of passed models, line 127
    models,          \* order -> fitted model, line 129
    full_pred,       \* line 148, of the last body run (None if not reached)
    stage,           \* where the last body run left the try block
    attempted,       \* history: the orders the body has been run on
    fits,            \* history: fits[n] is the fitted model behind orders[n]
    result,          \* the value returned to the caller
    lib,             \* what the external code returned per order, where it
                     \* is taken to be deterministic (SpecSearchDet)
    \* ---- parse_order
    opc, order_in, order_str, parsed,
    \* ---- prompts
    kind, n_options, int_bounds, unique, stdin,
    ppc, pos, choices, retval, rejected,
    \* ---- YesNoPrompt.__init__
    cpc,             \* "new", then "built", then "rebuilt"
    prompt,          \* the argument of the constructor
    self_prompt,     \* self._prompt of the object last constructed
    \* ---- forecast_with
    fpc,
    self_train,      \* the target column of self.__train
    self_forecast,   \* the exogenous rows of self.__forecast
    model_fit,       \* the fitted model passed in
    forecast,        \* the option passed in
    returned         \* the value returned to the caller

searchVars == <<p_values, d_values, q_values, metrics, bounds, return_models,
                pc, i, j, k, steps_count, tracker, passes, failures, orders,
                models, full_pred, stage, attempted, fits, result, lib>>
orderVars == <<opc, order_in, order_str, parsed>>
promptVars == <<kind, n_options, int_bounds, unique, stdin,
                ppc, pos, choices, retval, rejected>>
ctorVars == <<cpc, prompt, self_prompt>>
forecastVars == <<fpc, self_train, self_forecast, model_fit, forecast, returned>>
vars == <<searchVars, orderVars, promptVars, ctorVars, forecastVars>>

\* Python's None.
None == [none |-> TRUE]

\* All sequences over S of length at most n.
SeqsUpTo(S, n) == UNION {[1..m -> S] : m \in 0..n}

RECURSIVE SumSeq(_)
SumSeq(s) == IF s = <<>> THEN 0 ELSE Head(s) + SumSeq(Tail(s))

Abs(x) == IF x < 0 THEN -x ELSE x

(***************************************************************************)
(* Bounds of the model.                                                    *)
(***************************************************************************)
\* Longest p_values, d_values, q_values list.
MaxLen == 2
\* Largest grid len(p_values) * len(d_values) * len(q_values) explored.
MaxGrid == 4
\* Largest grid explored with deterministic external code.
MaxGridDet == 2
\* The values the three lists draw from.
OrderValues == {0, 1}

(***************************************************************************)
(* The wrapper's captured data and the external library.                   *)
(***************************************************************************)
\* self.__train_target: the training target series.
train_target == <<0>>
\* The bounds arguments tried: none, or (lo, hi).
BoundsChoices == {None, <<0, 1>>}
\* In-sample prediction series model_fit.predict() may return: one per
\* training point; at the lower bound or just below it.
InSamples == {<<0>>, <<-1>>}
\* Out-of-sample forecast means get_forecast(...).predicted_mean may return:
\* at the upper bound or just above it.
OutSamples == {<<1>>, <<2>>}
\* The metrics lists tried: none, or one metric, the total absolute error.
MetricsChoices == {<<>>, <<"absolute_error">>}
\* The calls into external code inside the try block, any of which may raise.
RaiseStages == {"construct", "fit", "predict", "metric"}
\* What the external code does for one candidate.
Externals == [raiseAt : RaiseStages \cup {"none"},
              insample : InSamples, outsample : OutSamples]

(***************************************************************************)
(* exhaustive_search                                                       *)
(***************************************************************************)
\* (p, d, q), lines 142, 156 and 162.
OrderSwapped(p, d, q) == <<p, q, d>>
Order(p, d, q) == <<p, d, q>>

\* The lambda of line 152 applied to one value.
OutsideLowOnly(x, b) == x < b[1]
OutsideInclusive(x, b) == x <= b[1] \/ x >= b[2]
Outside(x, b) == x < b[1] \/ x > b[2]

\* full_pred.apply(...).any(), line 152.
AnyOutside(pred, b) == \E n \in 1..Len(pred) : Outside(pred[n], b)

\* A metric applied to (train_target, insample_pred), line 158: the caller's
\* function, here the total absolute error.
Metric(name, y_true, y_pred) ==
    SumSeq([n \in 1..Len(y_true) |-> Abs(y_true[n] - y_pred[n])])

\* The statements of the try block, lines 140-165, in the order they run.
StmtPosStoreEarly(stmt) ==
    CASE stmt = "construct" -> 1
      [] stmt = "fit" -> 2
      [] stmt = "predict" -> 3
      [] stmt = "bounds" -> 4
      [] stmt = "store" -> 5
      [] stmt = "metric" -> 6
      [] stmt = "append" -> 7
      [] stmt = "pass" -> 8
StmtPos(stmt) ==
    CASE stmt = "construct" -> 1   \* line 142
      [] stmt = "fit" -> 2         \* line 143
      [] stmt = "predict" -> 3     \* lines 146-148
      [] stmt = "bounds" -> 4      \* lines 150-153
      [] stmt = "metric" -> 5      \* lines 156-158
      [] stmt = "store" -> 6       \* lines 161-162
      [] stmt = "append" -> 7      \* line 164
      [] stmt = "pass" -> 8        \* line 165

\* Where control leaves the try block: the statement that raises, or "pass".
ExitStage(ext, b, ms) ==
    IF ext.raiseAt \in {"construct", "fit", "predict"}
    THEN ext.raiseAt
    ELSE IF b # None /\ AnyOutside(ext.insample \o ext.outsample, b)
    THEN "bounds"
    ELSE IF ext.raiseAt = "metric" /\ Len(ms) > 0
    THEN "metric"
    ELSE "pass"

\* Whether statement stmt has run when the try block is left at st.
Executes(st, stmt) == StmtPos(stmt) < StmtPos(st) \/ (st = "pass" /\ stmt = "pass")

\* model_results of lines 156-158.
ModelResultsCarried(p, d, q, ext, ms) ==
    [order |-> Order(p, d, q),
     scores |-> (IF orders = <<>> THEN <<>> ELSE orders[Len(orders)].scores)
                    \o [n \in 1..Len(ms) |-> Metric(ms[n], train_target, ext.insample)]]
ModelResults(p, d, q, ext, ms) ==
    [order |-> Order(p, d, q),
     scores |-> [n \in 1..Len(ms) |-> Metric(ms[n], train_target, ext.insample)]]

\* model_fit of line 143, with what it predicts.
ModelFit(p, d, q, ext) ==
    [order |-> Order(p, d, q), insample |-> ext.insample,
     outsample |-> ext.outsample]

\* models[(p, d, q)] = model_fit, line 162.
StoreModelKeepFirst(ms, key, fit) ==
    [o \in DOMAIN ms \cup {key} |-> IF o \in DOMAIN ms THEN ms[o] ELSE fit]
StoreModel(ms, key, fit) ==
    [o \in DOMAIN ms \cup {key} |-> IF o = key THEN fit ELSE ms[o]]

\* orders.append(model_results), line 164.
PrependRow(rows, row) == <<row>> \o rows
AppendRow(rows, row) == Append(rows, row)

\* tracker.update(), line 170, after the try block left at st.
TrackerAfterPassOnly(t, st) ==
    IF st = "pass" THEN [t EXCEPT !.updates = @ + 1] ELSE t
TrackerAfter(t, st) == [t EXCEPT !.updates = @ + 1]

\* except Exception, line 167: the exceptions of the try block it catches.
CaughtNotBounds(st) == st # "bounds"
Caught(st) == TRUE

\* failures += 1, line 168.
CountFailureForgotten(f) == f
CountFailure(f) == f + 1

GridInputs ==
    {g \in SeqsUpTo(OrderValues, MaxLen) \X SeqsUpTo(OrderValues, MaxLen)
            \X SeqsUpTo(OrderValues, MaxLen) :
        Len(g[1]) * Len(g[2]) * Len(g[3]) <= MaxGrid}

\* Lines 122-132.
SearchInit ==
    /\ \E g \in GridInputs :
          /\ p_values = g[1] /\ d_values = g[2] /\ q_values = g[3]
          /\ steps_count = Len(g[1]) * Len(g[2]) * Len(g[3])
          /\ tracker = [total |-> Len(g[1]) * Len(g[2]) * Len(g[3]), updates |-> 0]
    /\ metrics \in MetricsChoices
    /\ bounds \in BoundsChoices
    /\ return_models \in BOOLEAN
    /\ pc = "for_p"
    /\ i = 0 /\ j = 0 /\ k = 0
    /\ passes = 0 /\ failures = 0
    /\ orders = <<>>
    /\ models = <<>>
    /\ full_pred = None
    /\ stage = "none"
    /\ attempted = <<>>
    /\ fits = <<>>
    /\ result = None
    /\ lib = <<>>

searchInputs == <<p_values, d_values, q_values, metrics, bounds, return_models,
                  steps_count>>

\* for p in p_values, line 135.
ForP ==
    /\ pc = "for_p"
    /\ IF i < Len(p_values)
       THEN i' = i + 1 /\ j' = 0 /\ pc' = "for_d"
       ELSE pc' = "report" /\ UNCHANGED <<i, j>>
    /\ UNCHANGED <<orderVars, promptVars, ctorVars, forecastVars>>
    /\ UNCHANGED <<searchInputs, k, tracker, passes, failures, orders, models,
                   full_pred, stage, attempted, fits, result, lib>>

\* for d in d_values, line 136.
ForD ==
    /\ pc = "for_d"
    /\ IF j < Len(d_values)
       THEN j' = j + 1 /\ k' = 0 /\ pc' = "for_q"
       ELSE pc' = "for_p" /\ UNCHANGED <<j, k>>
    /\ UNCHANGED <<orderVars, promptVars, ctorVars, forecastVars>>
    /\ UNCHANGED <<searchInputs, i, tracker, passes, failures, orders, models,
                   full_pred, stage, attempted, fits, result, lib>>

\* for q in q_values, line 137.
ForQ ==
    /\ pc = "for_q"
    /\ IF k < Len(q_values)
       THEN k' = k + 1 /\ pc' = "body"
       ELSE pc' = "for_d" /\ UNCHANGED k
    /\ UNCHANGED <<orderVars, promptVars, ctorVars, forecastVars>>
    /\ UNCHANGED <<searchInputs, i, j, tracker, passes, failures, orders, models,
                   full_pred, stage, attempted, fits, result, lib>>

\* The loop body, lines 140-170, on the candidate (p, d, q), the external
\* code doing ext.
BodyWith(ext) ==
    /\ LET p == p_values[i]
            d == d_values[j]
            q == q_values[k]
            st == ExitStage(ext, bounds, metrics)
        IN  /\ stage' = st
            /\ attempted' = Append(attempted, <<p, d, q>>)
            /\ full_pred' = IF Executes(st, "bounds") \/ st = "bounds"
                            THEN ext.insample \o ext.outsample
                            ELSE None
            /\ models' = IF return_models /\ Executes(st, "store")
                          THEN StoreModel(models, Order(p, d, q), ModelFit(p, d, q, ext))
                          ELSE models
            /\ orders' = IF Executes(st, "append")
                          THEN AppendRow(orders, ModelResults(p, d, q, ext, metrics))
                          ELSE orders
            /\ fits' = IF Executes(st, "append")
                        THEN Append(fits, ModelFit(p, d, q, ext))
                        ELSE fits
            /\ passes' = IF Executes(st, "pass") THEN passes + 1 ELSE passes
            /\ IF st = "pass" \/ Caught(st)
               THEN /\ failures' = IF st = "pass" THEN failures
                                    ELSE CountFailure(failures)
                    /\ tracker' = TrackerAfter(tracker, st)
                    /\ pc' = "for_q"
               ELSE /\ pc' = "raised"
                    /\ UNCHANGED <<failures, tracker>>
    /\ UNCHANGED <<orderVars, promptVars, ctorVars, forecastVars>>
    /\ UNCHANGED <<searchInputs, i, j, k, result>>

\* The loop body, whatever the external code does.
Body ==
    /\ pc = "body"
    /\ \E ext \in Externals : BodyWith(ext)
    /\ UNCHANGED lib

\* What deterministic external code may do for an order: a call that raises
\* before predicting yields no predictions.
DetExternals ==
    {e \in Externals :
        e.raiseAt \in {"construct", "fit", "predict"} =>
            (e.insample = <<0>> /\ e.outsample = <<1>>)}

\* The loop body with deterministic external code: the same order has the
\* same fit, predictions and metric behaviour every time.
BodyDet ==
    /\ pc = "body"
    /\ LET o == <<p_values[i], d_values[j], q_values[k]>>
       IN  \E ext \in (IF o \in DOMAIN lib THEN {lib[o]} ELSE DetExternals) :
              /\ BodyWith(ext)
              /\ lib' = [x \in DOMAIN lib \cup {o} |->
                            IF x = o THEN ext ELSE lib[x]]

\* Lines 173-178.
Report ==
    /\ pc = "report"
    /\ result' = IF return_models
                 THEN [table |-> orders, models |-> models]
                 ELSE [table |-> orders]
    /\ pc' = "done"
    /\ UNCHANGED <<orderVars, promptVars, ctorVars, forecastVars>>
    /\ UNCHANGED <<searchInputs, i, j, k, tracker, passes, failures, orders,
                   models, full_pred, stage, attempted, fits, lib>>

(***************************************************************************)
(* Python values that reach a caller, tagged with their type.              *)
(***************************************************************************)
PyInt(n) == [int |-> n]
PyStr(chars) == [str |-> chars]
PyBool(b) == [bool |-> b]
PyList(items) == [list |-> items]

(***************************************************************************)
(* parse_order                                                             *)
(***************************************************************************)
\* Largest p, d or q of the order triples formatted and parsed.
MaxOrderValue == 10

DigitChar(n) ==
    CASE n = 0 -> "0" [] n = 1 -> "1" [] n = 2 -> "2" [] n = 3 -> "3"
      [] n = 4 -> "4" [] n = 5 -> "5" [] n = 6 -> "6" [] n = 7 -> "7"
      [] n = 8 -> "8" [] n = 9 -> "9"

\* str(n) of an integer: its decimal digits, "-" first when negative.
RECURSIVE IntToStr(_)
IntToStr(n) ==
    IF n < 0 THEN <<"-">> \o IntToStr(-n)
    ELSE IF n < 10 THEN <<DigitChar(n)>>
    ELSE IntToStr(n \div 10) \o <<DigitChar(n % 10)>>

\* The string form of an order triple: "(p, d, q)".
FormatOrder(t) ==
    <<"(">> \o IntToStr(t[1]) \o <<",", " ">> \o IntToStr(t[2])
            \o <<",", " ">> \o IntToStr(t[3]) \o <<")">>

\* order[1:-1], line 256.
SliceInner(str) == SubSeq(str, 2, Len(str) - 1)

\* str.split(sep), line 256: the pieces between the occurrences of sep, found
\* left to right.
RECURSIVE SplitFrom(_, _, _, _)
SplitFrom(str, sep, start, at) ==
    IF at + Len(sep) - 1 > Len(str)
    THEN <<SubSeq(str, start, Len(str))>>
    ELSE IF SubSeq(str, at, at + Len(sep) - 1) = sep
    THEN <<SubSeq(str, start, at - 1)>>
             \o SplitFrom(str, sep, at + Len(sep), at + Len(sep))
    ELSE SplitFrom(str, sep, start, at + 1)
Split(str, sep) == SplitFrom(str, sep, 1, 1)

\* parse_order(order), line 256: a list of strings.
parse_order(order) ==
    LET pieces == Split(SliceInner(order), <<",", " ">>)
    IN  PyList([n \in 1..Len(pieces) |-> PyStr(pieces[n])])

OrderInit ==
    /\ opc = "start"
    /\ order_in \in (0..MaxOrderValue) \X (0..MaxOrderValue) \X (0..MaxOrderValue)
    /\ order_str = <<>>
    /\ parsed = None

\* The order triple is written out as a string.
FormatStep ==
    /\ opc = "start"
    /\ order_str' = FormatOrder(order_in)
    /\ opc' = "formatted"
    /\ UNCHANGED <<order_in, parsed>>
    /\ UNCHANGED <<searchVars, promptVars, ctorVars, forecastVars>>

\* ARIMAWrapper.parse_order(order_str), lines 241-256.
ParseStep ==
    /\ opc = "formatted"
    /\ parsed' = parse_order(order_str)
    /\ opc' = "parsed"
    /\ UNCHANGED <<order_in, order_str>>
    /\ UNCHANGED <<searchVars, promptVars, ctorVars, forecastVars>>

(***************************************************************************)
(* Console prompts                                                         *)
(***************************************************************************)
\* Longest console input stream, in lines.
MaxInput == 4
\* Longest console input stream where termination is checked.
MaxInputLive == 3
\* Most options of an OptionsList.
MaxOptions == 4

\* The lines typed at an OptionsList: "0", "5", "2", "-1", "x", "", " 3 ".
OptionLines ==
    {<<"0">>, <<"5">>, <<"2">>, <<"-", "1">>, <<"x">>, <<>>, <<" ", "3", " ">>}
\* The lines typed at a YesNoPrompt: "y", "Y", "n", "N", "maybe", "", "yes", " y".
YesNoLines ==
    {<<"y">>, <<"Y">>, <<"n">>, <<"N">>, <<"m", "a", "y", "b", "e">>, <<>>,
     <<"y", "e", "s">>, <<" ", "y">>}
\* The lines typed at a FreeIntegerInput: "3", "7", "", "11", "0", "x", " 3".
IntLines ==
    {<<"3">>, <<"7">>, <<>>, <<"1", "1">>, <<"0">>, <<"x">>, <<" ", "3">>}
\* The bounds a FreeIntegerInput is built with.
IntBoundsChoices == {<<1, 10>>, <<3, 7>>}

IsDigit(c) == c \in {"0", "1", "2", "3", "4", "5", "6", "7", "8", "9"}
DigitVal(c) ==
    CASE c = "0" -> 0 [] c = "1" -> 1 [] c = "2" -> 2 [] c = "3" -> 3
      [] c = "4" -> 4 [] c = "5" -> 5 [] c = "6" -> 6 [] c = "7" -> 7
      [] c = "8" -> 8 [] c = "9" -> 9
IsSpace(c) == c \in {" ", "\t", "\n", "\r"}

\* str.strip().
RECURSIVE LStrip(_)
LStrip(str) == IF str # <<>> /\ IsSpace(Head(str)) THEN LStrip(Tail(str)) ELSE str
RECURSIVE RStrip(_)
RStrip(str) ==
    IF str # <<>> /\ IsSpace(str[Len(str)])
    THEN RStrip(SubSeq(str, 1, Len(str) - 1))
    ELSE str

\* The value of a run of digits and single underscores between digits.
RECURSIVE DigitsValue(_, _)
DigitsValue(str, acc) ==
    IF str = <<>> THEN acc
    ELSE IF Head(str) = "_" THEN DigitsValue(Tail(str), acc)
    ELSE DigitsValue(Tail(str), 10 * acc + DigitVal(Head(str)))

\* Whether str is digits, with single underscores only between two digits.
WellFormedDigits(str) ==
    /\ str # <<>>
    /\ \A n \in 1..Len(str) : IsDigit(str[n]) \/ str[n] = "_"
    /\ IsDigit(str[1]) /\ IsDigit(str[Len(str)])
    /\ \A n \in 1..(Len(str) - 1) : ~(str[n] = "_" /\ str[n + 1] = "_")

\* int(str): surrounding whitespace dropped, an optional sign, then digits;
\* ok is FALSE where int raises ValueError.
ParseInt(str) ==
    LET t == RStrip(LStrip(str))
        signed == t # <<>> /\ Head(t) \in {"+", "-"}
        body == IF signed THEN Tail(t) ELSE t
    IN  IF WellFormedDigits(body)
        THEN [ok |-> TRUE,
              val |-> IF signed /\ Head(t) = "-"
                      THEN -DigitsValue(body, 0)
                      ELSE DigitsValue(body, 0)]
        ELSE [ok |-> FALSE, val |-> 0]

\* str.lower(), line 61.
LowerChar(c) ==
    CASE c = "Y" -> "y" [] c = "N" -> "n" [] c = "E" -> "e" [] c = "S" -> "s"
      [] c = "M" -> "m" [] c = "A" -> "a" [] c = "B" -> "b" [] OTHER -> c
LowerForgotten(str) == str
Lower(str) == [n \in 1..Len(str) |-> LowerChar(str[n])]

\* choice < 1 or choice > len(self.__options), line 39.
OptionOutOfRangeFromZero(choice, n) == choice < 0 \/ choice > n
OptionOutOfRangeAtTop(choice, n) == choice < 1 \/ choice >= n
OptionOutOfRange(choice, n) == choice < 1 \/ choice > n

\* choice in ('y', 'n'), line 64.
IsYesNoSubstring(choice) == choice \in {<<>>, <<"y">>, <<"n">>, <<"y", "n">>}
IsYesNo(choice) == choice \in {<<"y">>, <<"n">>}

\* choice < self.__bounds[0] or choice > self.__bounds[1], line 93.
IntOutOfBounds(choice, b) == choice < b[1] \/ choice > b[2]

\* self.__unique and choice in choices, line 97.
IsRepeatedNeverChecked(u, choice, chosen) == FALSE
IsRepeated(u, choice, chosen) ==
    u /\ \E n \in 1..Len(chosen) : chosen[n] = choice

PromptInit ==
    /\ \/ /\ kind = "options"
          /\ n_options \in 0..MaxOptions
          /\ stdin \in SeqsUpTo(OptionLines, MaxInput)
          /\ int_bounds = <<>> /\ unique = FALSE
       \/ /\ kind = "yesno"
          /\ stdin \in SeqsUpTo(YesNoLines, MaxInput)
          /\ n_options = 0 /\ int_bounds = <<>> /\ unique = FALSE
       \/ /\ kind = "freeint"
          /\ int_bounds \in IntBoundsChoices
          /\ unique \in BOOLEAN
          /\ stdin \in SeqsUpTo(IntLines, MaxInput)
          /\ n_options = 0
    /\ ppc = "reading"
    /\ pos = 0
    /\ choices = <<>>
    /\ retval = None
    /\ rejected = 0

promptInputs == <<kind, n_options, int_bounds, unique, stdin>>

\* One turn of the loop of OptionsList.prompt, lines 29-46.
OptionsRead ==
    /\ kind = "options" /\ ppc = "reading" /\ pos < Len(stdin)
    /\ LET choice == ParseInt(stdin[pos + 1])
       IN  IF choice.ok /\ ~OptionOutOfRange(choice.val, n_options)
           THEN /\ ppc' = "returned"
                /\ retval' = PyInt(choice.val)
                /\ UNCHANGED rejected
           ELSE /\ rejected' = rejected + 1
                /\ UNCHANGED <<ppc, retval>>
    /\ pos' = pos + 1
    /\ UNCHANGED <<promptInputs, choices>>
    /\ UNCHANGED <<searchVars, orderVars, ctorVars, forecastVars>>

\* One turn of the loop of YesNoPrompt.prompt, lines 59-67.
YesNoRead ==
    /\ kind = "yesno" /\ ppc = "reading" /\ pos < Len(stdin)
    /\ LET choice == Lower(stdin[pos + 1])
       IN  IF IsYesNo(choice)
           THEN /\ ppc' = "returned"
                /\ retval' = PyBool(choice = <<"y">>)
                /\ UNCHANGED rejected
           ELSE /\ rejected' = rejected + 1
                /\ UNCHANGED <<ppc, retval>>
    /\ pos' = pos + 1
    /\ UNCHANGED <<promptInputs, choices>>
    /\ UNCHANGED <<searchVars, orderVars, ctorVars, forecastVars>>

\* One turn of the loop of FreeIntegerInput.prompt, lines 83-105.
FreeIntRead ==
    /\ kind = "freeint" /\ ppc = "reading" /\ pos < Len(stdin)
    /\ LET line == stdin[pos + 1]
           choice == ParseInt(line)
       IN  IF Len(line) = 0
           THEN /\ ppc' = "returned"
                /\ retval' = PyList([n \in 1..Len(choices) |-> PyInt(choices[n])])
                /\ UNCHANGED <<choices, rejected>>
           ELSE IF ~choice.ok
           THEN /\ rejected' = rejected + 1
                /\ UNCHANGED <<ppc, retval, choices>>
           ELSE IF IntOutOfBounds(choice.val, int_bounds)
           THEN /\ rejected' = rejected + 1
                /\ UNCHANGED <<ppc, retval, choices>>
           ELSE IF IsRepeated(unique, choice.val, choices)
           THEN /\ rejected' = rejected + 1
                /\ UNCHANGED <<ppc, retval, choices>>
           ELSE /\ choices' = Append(choices, choice.val)
                /\ UNCHANGED <<ppc, retval, rejected>>
    /\ pos' = pos + 1
    /\ UNCHANGED promptInputs
    /\ UNCHANGED <<searchVars, orderVars, ctorVars, forecastVars>>

\* input() at the end of the console stream raises EOFError, outside any try
\* (lines 34, 61, 84): it reaches the caller.
InputEOF ==
    /\ ppc = "reading" /\ pos = Len(stdin)
    /\ ppc' = "raised"
    /\ UNCHANGED <<promptInputs, pos, choices, retval, rejected>>
    /\ UNCHANGED <<searchVars, orderVars, ctorVars, forecastVars>>

(***************************************************************************)
(* YesNoPrompt.__init__, user_input.py lines 49-55.                        *)
(***************************************************************************)
\* Most whitespace characters after the text of a prompt.
MaxTrail == 2

\* '(y/n):' of line 54 and '(y/n): ' of line 55.
YesNoMark == <<"(", "y", "/", "n", ")", ":">>
YesNoSuffix == <<"(", "y", "/", "n", ")", ":", " ">>

\* The texts a YesNoPrompt is built with: a question or none, then an ending
\* that is the mark, nearly the mark or nothing, then trailing whitespace.
PromptStems == {<<>>, <<"O", "K", "?", " ">>, <<"(", "y", "/", "n", ")", ":", " ", "?">>}
PromptEndings ==
    {<<>>, YesNoMark, <<"(", "y", "/", "n", ")">>,
     <<"(", "Y", "/", "N", ")", ":">>, <<"y", "/", "n", ")", ":">>}
PromptTexts ==
    {stem \o ending \o trail :
        stem \in PromptStems, ending \in PromptEndings,
        trail \in SeqsUpTo({" ", "\t", "\n"}, MaxTrail)}

\* str.endswith(suffix).
EndsWith(str, suffix) ==
    /\ Len(str) >= Len(suffix)
    /\ SubSeq(str, Len(str) - Len(suffix) + 1, Len(str)) = suffix

\* The value of self._prompt after lines 50-55, given the constructor's text.
MendNoStrip(text) ==
    IF ~EndsWith(text, YesNoMark) THEN text \o YesNoSuffix ELSE text
Mend(text) ==
    IF ~EndsWith(RStrip(text), YesNoMark) THEN text \o YesNoSuffix ELSE text

CtorInit == cpc = "new" /\ prompt \in PromptTexts /\ self_prompt = <<>>

\* YesNoPrompt(prompt).
Construct ==
    /\ cpc = "new"
    /\ self_prompt' = Mend(prompt)
    /\ cpc' = "built"
    /\ UNCHANGED prompt
    /\ UNCHANGED <<searchVars, orderVars, promptVars, forecastVars>>

\* YesNoPrompt(text) for the text of the prompt built before.
Reconstruct ==
    /\ cpc = "built"
    /\ self_prompt' = Mend(self_prompt)
    /\ cpc' = "rebuilt"
    /\ UNCHANGED prompt
    /\ UNCHANGED <<searchVars, orderVars, promptVars, forecastVars>>

(***************************************************************************)
(* forecast_with, model_wrappers.py lines 180-209.                         *)
(***************************************************************************)
\* Most rows of the training data and of the forecast data.
MaxTrain == 2
MaxForecast == 2
\* The values of a series.
SeriesValues == {0, 1}
\* The values passed as the option, one of them none of the three named.
ForecastOptions == {"insample", "outsample", "full", "both"}

\* A pd.Series returned to the caller.
PySeries(values) == [series |-> values]

\* model_fit.predict(), line 199: the in-sample predictions the fitted model
\* holds, one per row it was fitted on.
Predict(fit) == fit.fittedvalues

\* model_fit.get_forecast(steps, exog=exog), line 200: the results object,
\* its mean and the width of its interval at each step.
GetForecast(fit, steps, exog) ==
    [predicted_mean |-> [n \in 1..steps |-> fit.level + exog[n]],
     se_mean |-> [n \in 1..steps |-> n]]

\* pd.concat([a, b]), line 201.
ConcatReversed(a, b) == b \o a
Concat(a, b) == a \o b

\* A wrapper holding train and forecast data, and a model fitted on its
\* training data (reconstruct, line 236).
ForecastInit ==
    /\ fpc = "call"
    /\ self_train \in SeqsUpTo(SeriesValues, MaxTrain) \ {<<>>}
    /\ self_forecast \in SeqsUpTo(SeriesValues, MaxForecast) \ {<<>>}
    /\ model_fit \in {[fittedvalues |-> f, level |-> l] :
                        f \in [1..Len(self_train) -> SeriesValues],
                        l \in SeriesValues}
    /\ forecast \in ForecastOptions
    /\ returned = None

\* forecast_with(model_fit, forecast), lines 199-209.
ForecastWith ==
    /\ fpc = "call"
    /\ LET insample_pred == Predict(model_fit)
           outsample_fc ==
               GetForecast(model_fit, Len(self_forecast), self_forecast)
           full == Concat(insample_pred, outsample_fc.predicted_mean)
       IN  returned' =
               CASE forecast = "insample" -> PySeries(insample_pred)
                 [] forecast = "outsample" -> outsample_fc
                 [] forecast = "full" -> PySeries(full)
                 [] OTHER -> None
    /\ fpc' = "returned"
    /\ UNCHANGED <<self_train, self_forecast, model_fit, forecast>>
    /\ UNCHANGED <<searchVars, orderVars, promptVars, ctorVars>>

\* predict or get_forecast raises, lines 199-200: there is no try, the
\* exception reaches the caller and nothing is returned.
ForecastRaises ==
    /\ fpc = "call"
    /\ fpc' = "raised"
    /\ UNCHANGED <<self_train, self_forecast, model_fit, forecast, returned>>
    /\ UNCHANGED <<searchVars, orderVars, promptVars, ctorVars>>

(***************************************************************************)
(* Idle values of the components a specification does not run.             *)
(***************************************************************************)
SearchIdle ==
    /\ p_values = <<>> /\ d_values = <<>> /\ q_values = <<>>
    /\ metrics = <<>> /\ bounds = None /\ return_models = FALSE
    /\ pc = "idle" /\ i = 0 /\ j = 0 /\ k = 0 /\ steps_count = 0
    /\ tracker = None /\ passes = 0 /\ failures = 0 /\ orders = <<>>
    /\ models = <<>> /\ full_pred = None /\ stage = "none"
    /\ attempted = <<>> /\ fits = <<>> /\ result = None /\ lib = <<>>

OrderIdle ==
    /\ opc = "idle" /\ order_in = <<>> /\ order_str = <<>> /\ parsed = None

PromptIdle ==
    /\ kind = "idle" /\ n_options = 0 /\ int_bounds = <<>> /\ unique = FALSE
    /\ stdin = <<>> /\ ppc = "idle" /\ pos = 0 /\ choices = <<>>
    /\ retval = None /\ rejected = 0

CtorIdle == cpc = "idle" /\ prompt = <<>> /\ self_prompt = <<>>

ForecastIdle ==
    /\ fpc = "idle" /\ self_train = <<>> /\ self_forecast = <<>>
    /\ model_fit = None /\ forecast = "" /\ returned = None

InitSearch == SearchInit /\ OrderIdle /\ PromptIdle /\ CtorIdle /\ ForecastIdle

NextSearch == ForP \/ ForD \/ ForQ \/ Body \/ Report

SpecSearch == InitSearch /\ [][NextSearch]_vars

InitSearchDet ==
    /\ SearchInit /\ steps_count <= MaxGridDet
    /\ OrderIdle /\ PromptIdle /\ CtorIdle /\ ForecastIdle

NextSearchDet == ForP \/ ForD \/ ForQ \/ BodyDet \/ Report

SpecSearchDet == InitSearchDet /\ [][NextSearchDet]_vars

InitOrder == OrderInit /\ SearchIdle /\ PromptIdle /\ CtorIdle /\ ForecastIdle

NextOrder == FormatStep \/ ParseStep

SpecOrder == InitOrder /\ [][NextOrder]_vars

InitPrompt == PromptInit /\ SearchIdle /\ OrderIdle /\ CtorIdle /\ ForecastIdle

NextPrompt == OptionsRead \/ YesNoRead \/ FreeIntRead \/ InputEOF

SpecPrompt == InitPrompt /\ [][NextPrompt]_vars

InitPromptLive == InitPrompt /\ Len(stdin) <= MaxInputLive

InitCtor == CtorInit /\ SearchIdle /\ OrderIdle /\ PromptIdle /\ ForecastIdle

NextCtor == Construct \/ Reconstruct

SpecCtor == InitCtor /\ [][NextCtor]_vars

InitForecast == ForecastInit /\ SearchIdle /\ OrderIdle /\ PromptIdle /\ CtorIdle

NextForecast == ForecastWith \/ ForecastRaises

SpecForecast == InitForecast /\ [][NextForecast]_vars

\* The prompt's thread keeps running: a loop turn that can be taken is taken.
SpecPromptLive == InitPromptLive /\ [][NextPrompt]_vars /\ WF_vars(NextPrompt)

(***************************************************************************)
(* Claims about exhaustive_search, checked under SpecSearch.               *)
(***************************************************************************)
GridSize == Len(p_values) * Len(d_values) * Len(q_values)

\* The combinations whose body has run, from the positions of the three loops.
Processed ==
    LET nd == Len(d_values)
        nq == Len(q_values)
    IN  CASE pc = "for_p" -> i * nd * nq
          [] pc = "for_d" -> (i - 1) * nd * nq + j * nq
          [] pc = "for_q" -> (i - 1) * nd * nq + (j - 1) * nq + k
          [] pc = "body" -> (i - 1) * nd * nq + (j - 1) * nq + (k - 1)
          [] OTHER -> GridSize

\* The Cartesian product, p outermost and q innermost.
GridEnum ==
    LET nd == Len(d_values)
        nq == Len(q_values)
    IN  [n \in 1..GridSize |->
            <<p_values[((n - 1) \div (nd * nq)) + 1],
              d_values[(((n - 1) \div nq) % nd) + 1],
              q_values[((n - 1) % nq) + 1]>>]

Range(s) == {s[n] : n \in DOMAIN s}

\* C1: at every loop boundary passes + failures is the number of
\* combinations processed so far, and when the search finishes it is
\* len(p_values) * len(d_values) * len(q_values), for empty lists and
\* repeated values too.
C1_Accounting ==
    pc # "idle" =>
        /\ passes + failures = Processed
        /\ pc \in {"report", "done"} => passes + failures = GridSize

\* A finished search over a 2 x 1 x 2 grid with a repeated p value in which
\* candidates passed and candidates failed.
C1_Witness ==
    /\ pc = "done"
    /\ p_values = <<0, 0>> /\ Len(q_values) = 2 /\ Len(d_values) = 1
    /\ passes >= 1 /\ failures >= 2

\* C2: a candidate that raises at any stage of the try block adds no row and
\* no entry to the model mapping, so the number of rows is always the passes
\* counter, in the returned table too.
C2_FailedCandidateLeavesNoTrace ==
    /\ [](pc # "idle" => Len(orders) = passes)
    /\ [](pc = "done" => Len(result.table) = passes)
    /\ [][(pc = "body" /\ stage' # "pass") =>
            (orders' = orders /\ models' = models)]_vars

\* A finished search with return_models in which the last candidate raised
\* in a metric function after an earlier one had passed.
C2_Witness ==
    /\ pc = "done" /\ return_models
    /\ stage = "metric" /\ passes >= 1 /\ failures >= 1
    /\ Len(result.table) = passes

\* C3: no candidate's failure aborts the search: the exception never reaches
\* the caller, every combination of the Cartesian product is attempted
\* exactly once, in order, and the search returns its table.
C3_NeverAborts ==
    /\ pc # "raised"
    /\ pc \in {"for_p", "for_d", "for_q", "body", "report"} => ENABLED NextSearch
    /\ pc = "done" => /\ attempted = GridEnum
                      /\ result # None
                      /\ result.table = orders

\* A finished search over a 4-combination grid in which every candidate
\* failed.
C3_Witness ==
    /\ pc = "done" /\ GridSize = 4 /\ failures = 4
    /\ Len(attempted) = 4 /\ result.table = <<>>

\* C4: every row of the returned table has an order (p, d, q) with p in
\* p_values, d in d_values and q in q_values.
C4_RowsWithinGrid ==
    pc = "done" =>
        \A n \in 1..Len(result.table) :
            LET o == result.table[n].order
            IN  /\ Len(o) = 3
                /\ o[1] \in Range(p_values)
                /\ o[2] \in Range(d_values)
                /\ o[3] \in Range(q_values)

\* A returned table with two rows over lists that hold different values.
C4_Witness ==
    /\ pc = "done" /\ Len(result.table) >= 2
    /\ p_values = <<1>> /\ d_values = <<0>> /\ q_values = <<1, 0>>

\* C5: with bounds = (lo, hi), no returned row and no returned model belongs
\* to a combination whose in-sample predictions followed by forecast means
\* hold a value below lo or above hi.
ValueOutside(pred, lo, hi) == \E n \in 1..Len(pred) : pred[n] < lo \/ pred[n] > hi

C5_ReturnedWithinBounds ==
    (pc = "done" /\ bounds # None) =>
        /\ Len(fits) = Len(result.table)
        /\ \A n \in 1..Len(result.table) :
              /\ fits[n].order = result.table[n].order
              /\ ~ValueOutside(fits[n].insample \o fits[n].outsample,
                               bounds[1], bounds[2])
        /\ return_models =>
              \A o \in DOMAIN result.models :
                  ~ValueOutside(result.models[o].insample \o result.models[o].outsample,
                                bounds[1], bounds[2])

\* A finished bounded search that kept a model and rejected the last
\* candidate in the bounds check.
C5_Witness ==
    /\ pc = "done" /\ bounds # None /\ return_models
    /\ stage = "bounds" /\ Len(result.table) >= 1
    /\ DOMAIN result.models # {}

(***************************************************************************)
(* Claims about parse_order, checked under SpecOrder.                      *)
(***************************************************************************)
\* C6: formatting an order triple to its string form "(p, d, q)" and passing
\* it to parse_order yields the three integers p, d, q again.
C6_RoundTrip ==
    opc = "parsed" =>
        /\ Len(parsed.list) = 3
        /\ \A n \in 1..3 : parsed.list[n] = PyInt(order_in[n])

\* What parse_order does return: the three decimal strings.
ParseOrderReturnsStrings ==
    opc = "parsed" =>
        /\ Len(parsed.list) = 3
        /\ \A n \in 1..3 : parsed.list[n] = PyStr(IntToStr(order_in[n]))

(***************************************************************************)
(* Claims about the console prompts, checked under SpecPrompt.             *)
(***************************************************************************)
\* A line that is an integer in 1..n.
OptionValid(line, n) ==
    ParseInt(line).ok /\ 1 <= ParseInt(line).val /\ ParseInt(line).val <= n

FirstOptionValid ==
    IF \E n \in 1..Len(stdin) : OptionValid(stdin[n], n_options)
    THEN CHOOSE n \in 1..Len(stdin) :
            /\ OptionValid(stdin[n], n_options)
            /\ \A m \in 1..(n - 1) : ~OptionValid(stdin[m], n_options)
    ELSE 0

\* C7: OptionsList.prompt with N options returns only an integer in 1..N, the
\* value of the first input line that is an integer in 1..N; every earlier
\* line is rejected and followed by a re-prompt. With 4 options and the lines
\* "0", "5", "2" it rejects two lines and returns 2.
C7_OptionsReturnsFirstValid ==
    kind = "options" =>
        /\ ppc = "returned" =>
              /\ FirstOptionValid # 0
              /\ pos = FirstOptionValid
              /\ retval = PyInt(ParseInt(stdin[FirstOptionValid]).val)
              /\ retval.int \in 1..n_options
              /\ rejected = pos - 1
        /\ ppc = "reading" =>
              /\ FirstOptionValid = 0 \/ FirstOptionValid > pos
              /\ rejected = pos
        /\ (/\ n_options = 4 /\ Len(stdin) >= 3 /\ pos >= 3
            /\ stdin[1] = <<"0">> /\ stdin[2] = <<"5">> /\ stdin[3] = <<"2">>) =>
              /\ ppc = "returned" /\ pos = 3
              /\ retval = PyInt(2) /\ rejected = 2

\* Four options and the lines "0", "5", "2": returned 2 after two rejections.
C7_Witness ==
    /\ kind = "options" /\ n_options = 4
    /\ stdin = << <<"0">>, <<"5">>, <<"2">> >>
    /\ ppc = "returned" /\ retval = PyInt(2) /\ rejected = 2

YesLines == {<<"y">>, <<"Y">>}
NoLines == {<<"n">>, <<"N">>}

FirstYesNo ==
    IF \E n \in 1..Len(stdin) : stdin[n] \in YesLines \cup NoLines
    THEN CHOOSE n \in 1..Len(stdin) :
            /\ stdin[n] \in YesLines \cup NoLines
            /\ \A m \in 1..(n - 1) : stdin[m] \notin YesLines \cup NoLines
    ELSE 0

\* C8: YesNoPrompt.prompt returns True for "y" or "Y" and False for "n" or "N";
\* any other line is rejected and the prompt reads again, so the first line
\* that lower-cases to exactly "y" or "n" alone decides the return value.
C8_YesNoFirstAnswerDecides ==
    kind = "yesno" =>
        /\ ppc = "returned" =>
              /\ FirstYesNo # 0
              /\ pos = FirstYesNo
              /\ retval = PyBool(stdin[FirstYesNo] \in YesLines)
              /\ rejected = pos - 1
        /\ ppc = "reading" =>
              /\ FirstYesNo = 0 \/ FirstYesNo > pos
              /\ rejected = pos

\* "maybe", the empty line and "yes" are rejected, then "Y" returns True.
C8_Witness ==
    /\ kind = "yesno"
    /\ stdin = << <<"m", "a", "y", "b", "e">>, <<>>, <<"y", "e", "s">>, <<"Y">> >>
    /\ ppc = "returned" /\ retval = PyBool(TRUE) /\ rejected = 3

FirstEmpty ==
    IF \E n \in 1..Len(stdin) : stdin[n] = <<>>
    THEN CHOOSE n \in 1..Len(stdin) :
            stdin[n] = <<>> /\ \A m \in 1..(n - 1) : stdin[m] # <<>>
    ELSE 0

\* The values the first m lines contribute: integers within (lo, hi), in
\* order, without those already accepted when u.
RECURSIVE Accepted(_, _, _, _)
Accepted(lines, m, b, u) ==
    IF m = 0 THEN <<>>
    ELSE LET prev == Accepted(lines, m - 1, b, u)
             r == ParseInt(lines[m])
         IN  IF /\ r.ok /\ b[1] <= r.val /\ r.val <= b[2]
                /\ u => r.val \notin Range(prev)
             THEN Append(prev, r.val)
             ELSE prev

\* C9: FreeIntegerInput.prompt returns the in-order list of the lines before
\* the first empty line that are integers within the bounds and, under
\* unique, not already accepted; during collection the list holds only
\* in-bounds values and, under unique, no duplicates. Bounds (1, 10), unique,
\* lines "3", "3", "7", "" return [3, 7].
C9_FreeIntCollects ==
    kind = "freeint" =>
        /\ \A n \in 1..Len(choices) :
              int_bounds[1] <= choices[n] /\ choices[n] <= int_bounds[2]
        /\ unique => \A n, m \in 1..Len(choices) : choices[n] = choices[m] => n = m
        /\ ppc = "reading" =>
              /\ FirstEmpty = 0 \/ FirstEmpty > pos
              /\ choices = Accepted(stdin, pos, int_bounds, unique)
        /\ ppc = "returned" =>
              /\ FirstEmpty # 0 /\ pos = FirstEmpty
              /\ LET acc == Accepted(stdin, FirstEmpty - 1, int_bounds, unique)
                 IN  retval = PyList([n \in 1..Len(acc) |-> PyInt(acc[n])])
        /\ (/\ ppc = "returned" /\ int_bounds = <<1, 10>> /\ unique
            /\ stdin = << <<"3">>, <<"3">>, <<"7">>, <<>> >>) =>
              retval = PyList(<<PyInt(3), PyInt(7)>>)

\* Bounds (1, 10), unique, lines "3", "3", "7", "": returned [3, 7] with the
\* repeated "3" rejected.
C9_Witness ==
    /\ kind = "freeint" /\ int_bounds = <<1, 10>> /\ unique
    /\ stdin = << <<"3">>, <<"3">>, <<"7">>, <<>> >>
    /\ ppc = "returned" /\ rejected = 1
    /\ retval = PyList(<<PyInt(3), PyInt(7)>>)

\* A line after which the prompt returns: a valid choice, or the empty line
\* of a FreeIntegerInput.
Terminating(line) ==
    CASE kind = "options" -> OptionValid(line, n_options)
      [] kind = "yesno" -> line \in YesLines \cup NoLines
      [] kind = "freeint" -> line = <<>>

\* C10: an invalid line never ends a prompt and never raises to the caller:
\* after it the prompt reads again, however many invalid lines came before;
\* a prompt returns only directly after a valid line or, for
\* FreeIntegerInput, an empty line.
C10_InvalidNeverEnds ==
    /\ [][(ppc = "reading" /\ ppc' = "returned") =>
            (pos' = pos + 1 /\ Terminating(stdin[pos']))]_vars
    /\ [][(pos' = pos + 1 /\ ~Terminating(stdin[pos'])) => ppc' = "reading"]_vars
    /\ [][(ppc = "reading" /\ ppc' = "raised") =>
            (pos' = pos /\ pos = Len(stdin))]_vars
    /\ []((ppc \in {"reading", "returned"}
            /\ \A n \in 1..pos : ~Terminating(stdin[n])) => ppc = "reading")

\* An OptionsList still reading after four invalid lines in a row.
C10_Witness ==
    /\ kind = "options" /\ n_options = 4 /\ ppc = "reading"
    /\ pos = 4 /\ rejected = 4
    /\ stdin = << <<"0">>, <<"x">>, <<>>, <<"5">> >>

(***************************************************************************)
(* Further claims about exhaustive_search, checked under SpecSearch.       *)
(***************************************************************************)
\* Whether a can be had from b by dropping elements of b.
RECURSIVE IsSubseq(_, _)
IsSubseq(a, b) ==
    IF a = <<>> THEN TRUE
    ELSE IF b = <<>> THEN FALSE
    ELSE IF Head(a) = Head(b) THEN IsSubseq(Tail(a), Tail(b))
    ELSE IsSubseq(a, Tail(b))

\* C11: the rows of the returned table are in grid iteration order: their
\* orders are a subsequence of the Cartesian product enumerated with p
\* outermost, d in the middle and q innermost.
C11_RowsInGridOrder ==
    pc = "done" =>
        IsSubseq([n \in 1..Len(result.table) |-> result.table[n].order], GridEnum)

\* A returned table of two rows with different orders out of four
\* combinations, two of which failed.
C11_Witness ==
    /\ pc = "done" /\ GridSize = 4 /\ failures = 2
    /\ Len(result.table) = 2
    /\ result.table[1].order # result.table[2].order

\* C12: the bounds check rejects only genuine violations: a candidate that
\* fits, predicts and scores without error is kept when bounds is None and
\* when every value of its combined predictions is within lo..hi, the two
\* ends included.
C12_BoundsRejectOnlyViolations ==
    pc # "idle" =>
        /\ stage = "bounds" =>
              /\ bounds # None
              /\ ValueOutside(full_pred, bounds[1], bounds[2])
        /\ (/\ stage \in {"bounds", "pass"}
            /\ bounds # None => ~ValueOutside(full_pred, bounds[1], bounds[2])) =>
              /\ stage = "pass"
              /\ orders # <<>>
              /\ orders[Len(orders)].order = attempted[Len(attempted)]
              /\ fits[Len(fits)].insample \o fits[Len(fits)].outsample = full_pred

\* A bounded search kept a candidate whose predictions are exactly lo and hi.
C12_Witness ==
    /\ pc = "done" /\ stage = "pass"
    /\ bounds # None /\ bounds[1] = 0 /\ bounds[2] = 1
    /\ full_pred[1] = bounds[1] /\ full_pred[2] = bounds[2]
    /\ Len(result.table) = passes /\ passes >= 1

\* C13: the progress indicator is created with the grid size as its total and
\* advanced once per combination, passing or failing: at every loop boundary
\* its updates equal passes + failures, at the end the grid size, and they
\* never exceed the total.
C13_TrackerOncePerCombination ==
    pc # "idle" =>
        /\ tracker.total = GridSize
        /\ tracker.updates = passes + failures
        /\ tracker.updates = Processed
        /\ tracker.updates <= tracker.total
        /\ pc \in {"report", "done"} => tracker.updates = GridSize

\* A finished search of four combinations, some passed and some failed, with
\* four tracker updates.
C13_Witness ==
    /\ pc = "done" /\ tracker.total = 4 /\ tracker.updates = 4
    /\ passes >= 1 /\ failures >= 1

\* The last row of the table with order o.
LastRowWith(o) ==
    CHOOSE n \in 1..Len(fits) :
        /\ fits[n].order = o
        /\ \A m \in (n + 1)..Len(fits) : fits[m].order # o

\* C18: with return_models the keys of the returned mapping are exactly the
\* orders in the returned table; with repeated values the table may hold
\* more rows than the mapping has entries, and the mapping keeps the model
\* of the last passing occurrence.
C18_ModelKeysAreRowOrders ==
    (pc = "done" /\ return_models) =>
        /\ DOMAIN result.models =
              {result.table[n].order : n \in 1..Len(result.table)}
        /\ Cardinality(DOMAIN result.models) <= Len(result.table)
        /\ \A o \in DOMAIN result.models : result.models[o] = fits[LastRowWith(o)]

\* Two passing occurrences of one order with different fitted models: two
\* rows, one entry, the entry being the second model.
C18_Witness ==
    /\ pc = "done" /\ return_models
    /\ Len(result.table) = 2 /\ Cardinality(DOMAIN result.models) = 1
    /\ fits[1] # fits[2]
    /\ result.models[fits[2].order] = fits[2]

(***************************************************************************)
(* Independence of the candidates, checked under SpecSearchDet, where the  *)
(* external fit, predict and metric functions are deterministic.           *)
(***************************************************************************)
\* Whether a combination passes, from what the external code does for its
\* order, the bounds and the metrics alone.
ExpectedPass(e) ==
    /\ e.raiseAt \notin {"construct", "fit", "predict"}
    /\ bounds # None => ~ValueOutside(e.insample \o e.outsample, bounds[1], bounds[2])
    /\ ~(e.raiseAt = "metric" /\ metrics # <<>>)

\* The row of a passing combination, from the same alone.
ExpectedRow(o, e) ==
    [order |-> o,
     scores |-> [n \in 1..Len(metrics) |->
                    Metric(metrics[n], train_target, e.insample)]]

CountIn(seq, x) == Cardinality({n \in DOMAIN seq : seq[n] = x})

\* C14: with deterministic external functions, whether (p, d, q) passes and
\* the row it produces depend only on (p, d, q), the captured data, the
\* metrics and the bounds: not on the rest of the grid, the position in the
\* iteration order or the outcome of earlier combinations.
C14_CandidatesIndependent ==
    pc # "idle" =>
        /\ \A n \in 1..Len(orders) :
              /\ orders[n].order \in DOMAIN lib
              /\ ExpectedPass(lib[orders[n].order])
              /\ orders[n] = ExpectedRow(orders[n].order, lib[orders[n].order])
        /\ \A n \in 1..Len(attempted) : attempted[n] \in DOMAIN lib
        /\ pc \in {"for_p", "for_d", "for_q", "report", "done"} =>
              \A o \in DOMAIN lib :
                  CountIn([n \in 1..Len(orders) |-> orders[n].order], o) =
                      IF ExpectedPass(lib[o]) THEN CountIn(attempted, o) ELSE 0
        /\ pc = "done" => result.table = orders

\* A grid that repeats one combination: both attempts pass and produce the
\* same scored row.
C14_Witness ==
    /\ pc = "done" /\ metrics # <<>>
    /\ Len(attempted) = 2 /\ attempted[1] = attempted[2]
    /\ Len(result.table) = 2 /\ result.table[1] = result.table[2]
    /\ result.table[1].scores = <<1>>

(***************************************************************************)
(* Termination of the prompts, checked under SpecPromptLive.               *)
(***************************************************************************)
HasTerminating == \E n \in 1..Len(stdin) : Terminating(stdin[n])

FirstTerminating ==
    IF HasTerminating
    THEN CHOOSE n \in 1..Len(stdin) :
            /\ Terminating(stdin[n])
            /\ \A m \in 1..(n - 1) : ~Terminating(stdin[m])
    ELSE 0

\* C15: if the input holds a terminating line (an integer in 1..N for
\* OptionsList, a line lower-casing to "y" or "n" for YesNoPrompt, an empty
\* line for FreeIntegerInput) the prompt eventually returns, on the first
\* such line and without consuming any later input.
C15_ReturnsOnFirstTerminatingLine ==
    /\ HasTerminating ~> (ppc = "returned")
    /\ [](ppc = "returned" => (HasTerminating /\ pos = FirstTerminating))
    /\ [][ppc = "returned" => pos' = pos]_vars

\* A YesNoPrompt given "maybe", "n", "y": returned False on the second line,
\* the third left unread.
C15_Witness ==
    /\ kind = "yesno"
    /\ stdin = << <<"m", "a", "y", "b", "e">>, <<"n">>, <<"y">> >>
    /\ ppc = "returned" /\ pos = 2 /\ retval = PyBool(FALSE)

(***************************************************************************)
(* OptionsList without options, checked under SpecPrompt.                  *)
(***************************************************************************)
\* C19: an OptionsList built with an empty options list never returns: no
\* line satisfies 1 <= choice <= 0, so every line read is rejected and the
\* prompt reads again; it leaves the loop only when input() itself raises
\* at the end of the input.
C19_EmptyOptionsNeverReturn ==
    /\ []((kind = "options" /\ n_options = 0) =>
            (ppc # "returned" /\ retval = None /\ rejected = pos))
    /\ [][(kind = "options" /\ n_options = 0 /\ pos' = pos + 1) =>
            ppc' = "reading"]_vars
    /\ [][(kind = "options" /\ n_options = 0 /\ ppc' = "raised") =>
            pos = Len(stdin)]_vars

\* An OptionsList without options still reading after "2", "0", "5", " 3 ".
C19_Witness ==
    /\ kind = "options" /\ n_options = 0 /\ ppc = "reading"
    /\ stdin = << <<"2">>, <<"0">>, <<"5">>, <<" ", "3", " ">> >>
    /\ pos = 4 /\ rejected = 4

(***************************************************************************)
(* The text of a YesNoPrompt, checked under SpecCtor.                      *)
(***************************************************************************)
\* How many times the mark '(y/n):' occurs in str.
MarkCount(str) ==
    Cardinality({n \in 1..Len(str) :
        n + Len(YesNoMark) - 1 <= Len(str)
        /\ SubSeq(str, n, n + Len(YesNoMark) - 1) = YesNoMark})

\* C16: the text of a constructed YesNoPrompt ends, trailing whitespace
\* aside, with "(y/n):"; "(y/n): " was appended to the given text exactly
\* when the given text, trailing whitespace aside, did not end with "(y/n):";
\* constructing a prompt from that text again leaves it unchanged, so the
\* mark is never added a second time.
C16_PromptNormalised ==
    /\ [](cpc \in {"built", "rebuilt"} =>
            EndsWith(RStrip(self_prompt), YesNoMark))
    /\ [](cpc = "built" =>
            /\ EndsWith(RStrip(prompt), YesNoMark) => self_prompt = prompt
            /\ ~EndsWith(RStrip(prompt), YesNoMark) =>
                  self_prompt = prompt \o YesNoSuffix)
    /\ [][cpc = "built" => self_prompt' = self_prompt]_vars
    /\ [](cpc = "rebuilt" => MarkCount(self_prompt) <= MarkCount(prompt) + 1)

\* "OK? (y/n):" followed by a space and a newline is kept as given, by the
\* first construction and by the second.
C16_Witness ==
    /\ cpc = "rebuilt"
    /\ prompt = <<"O", "K", "?", " ", "(", "y", "/", "n", ")", ":", " ", "\n">>
    /\ self_prompt = prompt

(***************************************************************************)
(* forecast_with, checked under SpecForecast.                              *)
(***************************************************************************)
\* C17: forecast_with leaves the fitted model and the wrapper's train and
\* forecast data unchanged whatever the option, and the 'full' result is
\* the in-sample predictions followed by the out-of-sample forecast, as
\* long as the training data and the forecast data together.
C17_ForecastReadOnly ==
    /\ [][/\ model_fit' = model_fit
          /\ self_train' = self_train
          /\ self_forecast' = self_forecast]_vars
    /\ []((fpc = "returned" /\ forecast = "full") =>
            /\ returned =
                  PySeries(Predict(model_fit) \o
                      GetForecast(model_fit, Len(self_forecast),
                                  self_forecast).predicted_mean)
            /\ Len(returned.series) = Len(self_train) + Len(self_forecast))

\* Two training rows and one forecast row: the full result has three
\* values, the two predictions first.
C17_Witness ==
    /\ fpc = "returned" /\ forecast = "full"
    /\ self_train = <<0, 1>> /\ self_forecast = <<1>>
    /\ model_fit = [fittedvalues |-> <<1, 0>>, level |-> 1]
    /\ returned = PySeries(<<1, 0, 2>>)

====
